---- MODULE Spec2Model ----
(***************************************************************************)
(* Model of src/src/sympathetic.c, the "Sympathetic String Reverb" LADSPA   *)
(* plugin: a bank of up to COMB_COUNT feedback comb filters built at        *)
(* activation from the tuning ports, run block by block, released at        *)
(* deactivation.                                                            *)
(*                                                                          *)
(* LADSPA_Data / float values are modelled as exact rationals <<n, d>> in   *)
(* lowest terms with d > 0 (rounding of the float format is not modelled).  *)
(* The heap is a function from live block addresses to block contents;      *)
(* NULL is address 0.                                                       *)
(***************************************************************************)
EXTENDS Integers, Sequences, FiniteSets, TLC

(* ------------------------------------------------------------------ *)
(* Bounds of the model                                                 *)
(* ------------------------------------------------------------------ *)
MaxLeaked == 3
MaxSamples == 1
MaxCount == 2
MaxFailAt == 6
MaxMixSamples == 2
MaxImpulseSamples == 7

(* ------------------------------------------------------------------ *)
(* Program constants                                                   *)
(* ------------------------------------------------------------------ *)
COMB_COUNT == 11
NULL == 0

(* ------------------------------------------------------------------ *)
(* Rational arithmetic standing for float arithmetic                   *)
(* ------------------------------------------------------------------ *)
Abs(x) == IF x < 0 THEN -x ELSE x
Min(a, b) == IF a < b THEN a ELSE b

RECURSIVE Gcd(_, _)
Gcd(a, b) == IF b = 0 THEN a ELSE Gcd(b, a % b)

Q(n, d) ==
    LET g == Gcd(Abs(n), Abs(d))
        s == IF d < 0 THEN -1 ELSE 1
    IN  <<(s * n) \div g, (s * d) \div g>>

Z(n) == <<n, 1>>

RAdd(x, y) == Q(x[1] * y[2] + y[1] * x[2], x[2] * y[2])
RSub(x, y) == Q(x[1] * y[2] - y[1] * x[2], x[2] * y[2])
RMul(x, y) == Q(x[1] * y[1], x[2] * y[2])
RLt(x, y) == x[1] * y[2] < y[1] * x[2]
RLe(x, y) == x[1] * y[2] <= y[1] * x[2]

FEEDBACK_OFFSET == Q(96, 100)
FEEDBACK_RANGE == Q(39, 1000)
DAMPING_RANGE == Q(1, 2)

(* mutant: the quotient rounded up instead of truncated *)
DelaySize_rounded_up(rate, tuning) ==
    (rate * tuning[2] + tuning[1] - 1) \div tuning[1]

(* (int)(sample_rate / tuning) for tuning > 0: float division, then the    *)
(* conversion to int truncates.                                            *)
DelaySize(rate, tuning) == (rate * tuning[2]) \div tuning[1]

(* C's logical negation of an int *)
LogicalNot(x) == IF x = 0 THEN 1 ELSE 0

Zeros(n) == [j \in 1..n |-> Z(0)]

(* ------------------------------------------------------------------ *)
(* State                                                               *)
(* ------------------------------------------------------------------ *)
VARIABLES
    symp,        \* struct symp: the plugin instance
    heap,        \* live malloc blocks a pointer leads to: address -> contents
    leaked,      \* number of live malloc blocks no pointer leads to any more
    ports,       \* the host's locations behind the ctrl_* pointers
    out1, out2,  \* the host's buffers behind audio_output1 / audio_output2
    active,      \* host side: between activate() and deactivate()
    fault,       \* "none", "ub" (an invalid access happened) or "crash"
    setup_ret,   \* value symp_setup_combs returned to the last symp_activate
    oom_printed, \* whether the last symp_activate printed "Out of memory!"
    act_tunings, \* tuning port values read by the last symp_activate
    nsamples,    \* samples processed since the last symp_activate
    retuned_at,  \* nsamples when a tuning port last changed while active, or -1
    last_run,    \* "none", "run" or "run_adding": the last block's entry point
    mixed        \* the last block's per-sample bank sums (local variable out)

vars == <<symp, heap, leaked, ports, out1, out2, active, fault, setup_ret, oom_printed,
          act_tunings, nsamples, retuned_at, last_run, mixed>>

Ports == 0..(COMB_COUNT - 1)

(* ------------------------------------------------------------------ *)
(* malloc / free                                                       *)
(* ------------------------------------------------------------------ *)
(* Addresses name the blocks a pointer leads to; malloc returns the lowest  *)
(* unused name.  A block whose only pointer is gone stays allocated, but    *)
(* neither its address nor its contents can be observed any more: such      *)
(* blocks are only counted (leaked).                                        *)
FreshAddr(h) == CHOOSE a \in 1..(Cardinality(DOMAIN h) + 1) : a \notin DOMAIN h

HeapPut(h, a, blk) == [x \in (DOMAIN h) \cup {a} |-> IF x = a THEN blk ELSE h[x]]

HeapFree(h, a) == [x \in (DOMAIN h) \ {a} |-> h[x]]

ZeroComb == [kind |-> "comb", store |-> Z(0), buffer |-> NULL, size |-> 0, idx |-> 0]

BufferBlock(data) == [kind |-> "buffer", data |-> data]

(* ------------------------------------------------------------------ *)
(* symp_setup_combs                                                    *)
(* fail_at: index (from 1) of the malloc call that returns NULL, 0 for *)
(* none; zero_null: whether this libc's malloc(0) returns NULL.        *)
(* ------------------------------------------------------------------ *)
RECURSIVE SetupLoop(_, _, _, _, _, _)
SetupLoop(i, s, h, calls, fail_at, zero_null) ==
    IF i >= COMB_COUNT THEN [symp |-> s, heap |-> h, ret |-> 1]
    ELSE IF RLe(ports.tunings[i], Z(0))
    THEN SetupLoop(i + 1, s, h, calls, fail_at, zero_null)
    ELSE
        LET size == DelaySize(s.sample_rate, ports.tunings[i])
            comb == IF calls + 1 = fail_at THEN NULL ELSE FreshAddr(h)
        IN  IF comb = NULL THEN [symp |-> s, heap |-> h, ret |-> -1]
            ELSE
                LET s1 == [s EXCEPT !.combs[s.num_combs] = comb,
                                    !.num_combs = s.num_combs + 1]
                    h1 == HeapPut(h, comb, ZeroComb)
                    buffer == IF calls + 2 = fail_at \/ (size = 0 /\ zero_null)
                              THEN NULL ELSE FreshAddr(h1)
                IN  IF buffer = NULL THEN [symp |-> s1, heap |-> h1, ret |-> -1]
                    ELSE
                        LET h2 == HeapPut(h1, buffer, BufferBlock(Zeros(size)))
                            h3 == [h2 EXCEPT ![comb].buffer = buffer,
                                             ![comb].size = size]
                        IN  SetupLoop(i + 1, s1, h3, calls + 2, fail_at, zero_null)

symp_setup_combs(s, h, fail_at, zero_null) == SetupLoop(0, s, h, 0, fail_at, zero_null)

(* ------------------------------------------------------------------ *)
(* symp_cleanup_combs                                                  *)
(* ------------------------------------------------------------------ *)
(* free(p): a no-op on NULL; freeing a block that is not live is invalid. *)
FreeValid(h, p) == p = NULL \/ p \in DOMAIN h

(* free(symp->combs[i]) releases the struct comb only: the block behind its *)
(* buffer pointer stays allocated, and that pointer was the only one to it. *)
FreeComb(h, lk, p) ==
    IF p = NULL \/ p \notin DOMAIN h THEN [heap |-> h, leaked |-> lk]
    ELSE LET b == h[p].buffer
         IN  IF b = NULL THEN [heap |-> HeapFree(h, p), leaked |-> lk]
             ELSE [heap |-> HeapFree(HeapFree(h, p), b), leaked |-> lk + 1]

RECURSIVE CleanupLoop(_, _, _, _)
CleanupLoop(i, s, f, ok) ==
    IF i >= s.num_combs
    THEN [symp |-> [s EXCEPT !.num_combs = 0], heap |-> f.heap, leaked |-> f.leaked,
          valid |-> ok]
    ELSE CleanupLoop(i + 1, [s EXCEPT !.combs[i] = NULL],
                     FreeComb(f.heap, f.leaked, s.combs[i]),
                     ok /\ FreeValid(f.heap, s.combs[i]))

symp_cleanup_combs(s, h, lk) == CleanupLoop(0, s, [heap |-> h, leaked |-> lk], TRUE)

(* ------------------------------------------------------------------ *)
(* symp_instantiate                                                    *)
(* ------------------------------------------------------------------ *)
symp_instantiate(sample_rate) ==
    [run_adding_gain |-> Z(0),
     combs |-> [i \in Ports |-> NULL],
     num_combs |-> 0,
     damping |-> Z(0), damp1 |-> Z(0), damp2 |-> Z(1),
     feedback |-> Z(0), scaled_feedback |-> Z(0),
     sample_rate |-> sample_rate]

(* ------------------------------------------------------------------ *)
(* symp_run_effect                                                     *)
(* ------------------------------------------------------------------ *)
(* mutant: the upper clamp is missing *)
ClampWet_no_upper(w) == IF RLt(w, Z(0)) THEN Z(0) ELSE w

ClampWet(w) == IF RLt(w, Z(0)) THEN Z(0) ELSE IF RLt(Z(1), w) THEN Z(1) ELSE w

RefreshDamping(s, raw) ==
    IF raw # s.damping
    THEN [s EXCEPT !.damping = raw,
                   !.damp1 = RMul(raw, DAMPING_RANGE),
                   !.damp2 = RSub(Z(1), RMul(raw, DAMPING_RANGE))]
    ELSE s

RefreshFeedback(s, raw) ==
    IF raw # s.feedback
    THEN [s EXCEPT !.feedback = raw,
                   !.scaled_feedback = RAdd(FEEDBACK_OFFSET, RMul(raw, FEEDBACK_RANGE))]
    ELSE s

(* buffer[idx] is a valid access of comb block cb in heap h *)
AccessValid(h, cb) == cb.buffer # NULL /\ cb.idx < cb.size

(* mutant: the buffer is written before it is tapped *)
CombStep_writes_first(h, a, in, damp1, damp2, feedback, g) ==
    LET cb == h[a]
        ok == AccessValid(h, cb)
        old == IF ok THEN h[cb.buffer].data[cb.idx + 1] ELSE g
        store == RAdd(RMul(old, damp2), RMul(cb.store, damp1))
        tmp == RAdd(in, RMul(store, feedback))
        idx == IF cb.idx + 1 >= cb.size THEN 0 ELSE cb.idx + 1
        h1 == [h EXCEPT ![a].store = store, ![a].idx = idx]
        h2 == IF ok THEN [h1 EXCEPT ![cb.buffer].data[cb.idx + 1] = tmp] ELSE h1
    IN  [heap |-> h2, tmp |-> tmp, valid |-> ok]

(* mutant: on wrap-around the size field is reset instead of idx *)
CombStep_resets_size(h, a, in, damp1, damp2, feedback, g) ==
    LET cb == h[a]
        ok == AccessValid(h, cb)
        tmp == IF ok THEN h[cb.buffer].data[cb.idx + 1] ELSE g
        store == RAdd(RMul(tmp, damp2), RMul(cb.store, damp1))
        wrap == cb.idx + 1 >= cb.size
        h1 == [h EXCEPT ![a].store = store, ![a].idx = cb.idx + 1,
                        ![a].size = IF wrap THEN 0 ELSE cb.size]
        h2 == IF ok
              THEN [h1 EXCEPT ![cb.buffer].data[cb.idx + 1] =
                                  RAdd(in, RMul(store, feedback))]
              ELSE h1
    IN  [heap |-> h2, tmp |-> tmp, valid |-> ok]

(* One comb, one sample: tap, store update, write, index advance.  An      *)
(* invalid access reads the value g and its store is not tracked.          *)
CombStep(h, a, in, damp1, damp2, feedback, g) ==
    LET cb == h[a]
        ok == AccessValid(h, cb)
        tmp == IF ok THEN h[cb.buffer].data[cb.idx + 1] ELSE g
        store == RAdd(RMul(tmp, damp2), RMul(cb.store, damp1))
        idx == IF cb.idx + 1 >= cb.size THEN 0 ELSE cb.idx + 1
        h1 == [h EXCEPT ![a].store = store, ![a].idx = idx]
        h2 == IF ok
              THEN [h1 EXCEPT ![cb.buffer].data[cb.idx + 1] =
                                  RAdd(in, RMul(store, feedback))]
              ELSE h1
    IN  [heap |-> h2, tmp |-> tmp, valid |-> ok]

(* for (c = 0; c < num_combs; c++): returns the heap, the sum out and      *)
(* whether every access was valid                                          *)
(* out += tmp, after the comb step with result r *)
Accumulate(b, r) ==
    [heap |-> r.heap, out |-> RAdd(b.out, r.tmp), valid |-> b.valid /\ r.valid]

RECURSIVE BankLoop(_, _, _, _, _, _)
BankLoop(c, s, b, in, feedback, g) ==
    IF c >= s.num_combs THEN b
    ELSE BankLoop(c + 1, s,
                  Accumulate(b, CombStep(b.heap, s.combs[c], in, s.damp1, s.damp2,
                                         feedback, g)),
                  in, feedback, g)

(* mutant: in add mode the left channel's guard also guards the right one *)
WriteOutputs_left_guard(st, out, add, adding_gain, wet_left, wet_right) ==
    IF add # 0
    THEN LET l == RLt(Z(0), wet_left)
         IN  [st EXCEPT
                !.o1 = IF l THEN [@ EXCEPT ![st.p1 + 1] =
                                   RAdd(@, RMul(RMul(out, adding_gain), wet_left))]
                       ELSE @,
                !.p1 = IF l THEN @ + 1 ELSE @,
                !.o2 = IF l THEN [@ EXCEPT ![st.p2 + 1] =
                                   RAdd(@, RMul(RMul(out, adding_gain), wet_right))]
                       ELSE @,
                !.p2 = IF l THEN @ + 1 ELSE @]
    ELSE [st EXCEPT !.o1[st.p1 + 1] = RMul(out, wet_left), !.p1 = @ + 1,
                    !.o2[st.p2 + 1] = RMul(out, wet_right), !.p2 = @ + 1]

(* The output stage of one sample.  st.p1, st.p2 are the offsets of the    *)
(* moving pointers out1, out2 into the host's buffers.                     *)
WriteOutputs(st, out, add, adding_gain, wet_left, wet_right) ==
    IF add # 0
    THEN LET l == RLt(Z(0), wet_left)
             r == RLt(Z(0), wet_right)
         IN  [st EXCEPT
                !.o1 = IF l THEN [@ EXCEPT ![st.p1 + 1] =
                                   RAdd(@, RMul(RMul(out, adding_gain), wet_left))]
                       ELSE @,
                !.p1 = IF l THEN @ + 1 ELSE @,
                !.o2 = IF r THEN [@ EXCEPT ![st.p2 + 1] =
                                   RAdd(@, RMul(RMul(out, adding_gain), wet_right))]
                       ELSE @,
                !.p2 = IF r THEN @ + 1 ELSE @]
    ELSE [st EXCEPT !.o1[st.p1 + 1] = RMul(out, wet_left), !.p1 = @ + 1,
                    !.o2[st.p2 + 1] = RMul(out, wet_right), !.p2 = @ + 1]

(* for (i = 0; i < sample_count; i++) *)
(* one sample: b is the result of the loop over the combs *)
SampleStep(st, b, add, wet_left, wet_right) ==
    [WriteOutputs(st, b.out, add, st.symp.run_adding_gain, wet_left, wet_right)
        EXCEPT !.heap = b.heap,
               !.mixed = Append(@, b.out),
               !.valid = @ /\ b.valid]

RECURSIVE SampleLoop(_, _, _, _, _, _, _, _, _)
SampleLoop(i, sample_count, st, input, input_gain, add, wet_left, wet_right, g) ==
    IF i >= sample_count THEN st
    ELSE SampleLoop(i + 1, sample_count,
                    SampleStep(st,
                               BankLoop(0, st.symp,
                                        [heap |-> st.heap, out |-> Z(0), valid |-> TRUE],
                                        RMul(input[i + 1], input_gain),
                                        st.symp.scaled_feedback, g),
                               add, wet_left, wet_right),
                    input, input_gain, add, wet_left, wet_right, g)

(* The result holds the instance (symp), the heap, the host's output       *)
(* buffers (o1, o2), the bank sums of the block (mixed) and whether every  *)
(* access was valid.                                                       *)
symp_run_effect(s, h, o1, o2, sample_count, input, add, g) ==
    SampleLoop(0, sample_count,
               [symp |-> RefreshFeedback(RefreshDamping(s, ports.damping),
                                         ports.feedback),
                heap |-> h, o1 |-> o1, o2 |-> o2, p1 |-> 0, p2 |-> 0,
                mixed |-> <<>>, valid |-> TRUE],
               input, ports.gain_input, add,
               ClampWet(ports.wet_left), ClampWet(ports.wet_right), g)

(* symp_run and symp_run_adding *)
symp_run(s, h, o1, o2, sample_count, input, g) ==
    symp_run_effect(s, h, o1, o2, sample_count, input, 0, g)

symp_run_adding(s, h, o1, o2, sample_count, input, g) ==
    symp_run_effect(s, h, o1, o2, sample_count, input, 1, g)

(* ------------------------------------------------------------------ *)
(* Inputs of the model                                                 *)
(* ------------------------------------------------------------------ *)
SampleRates == {3, 4}

TuningVector(seq) == [i \in Ports |-> seq[i + 1]]

NoStrings == TuningVector(<<Z(0), Z(0), Z(0), Z(0), Z(0), Z(0), Z(0), Z(0), Z(0), Z(0), Z(0)>>)
OneString == TuningVector(<<Z(2), Z(0), Z(0), Z(0), Z(0), Z(0), Z(0), Z(0), Z(0), Z(0), Z(0)>>)
SlowString == TuningVector(<<Z(0), Z(1), Z(0), Z(0), Z(0), Z(0), Z(0), Z(0), Z(0), Z(0), Z(0)>>)
FastString == TuningVector(<<Z(0), Z(0), Z(3), Z(0), Z(0), Z(0), Z(0), Z(0), Z(0), Z(0), Z(0)>>)
MixedStrings == TuningVector(<<Z(0), Q(3, 2), Z(-1), Z(1), Z(0), Z(0), Z(0), Z(0), Z(0), Z(0), Z(3)>>)
HighString == TuningVector(<<Z(1), Z(5), Z(2), Z(0), Z(0), Z(0), Z(0), Z(0), Z(0), Z(0), Z(0)>>)
AllStrings == TuningVector(<<Z(2), Z(1), Z(2), Z(1), Z(2), Z(1), Z(2), Z(1), Z(2), Z(1), Z(3)>>)

LifecycleTunings == {NoStrings, MixedStrings, HighString, AllStrings}
MixTunings == {MixedStrings}
ImpulseTunings == {OneString, SlowString, FastString}

(* the value an invalid read may yield *)
Garbage == {Z(0), Z(1)}

(* the descriptor's defaults, in a host that starts with no string tuned *)
DefaultPorts ==
    [tunings |-> NoStrings, feedback |-> Q(1, 2), damping |-> Z(0),
     gain_input |-> Z(1), wet_left |-> Z(1), wet_right |-> Z(1)]

(* input blocks of n samples *)
OnesInput == [n \in 0..MaxCount |-> {[j \in 1..n |-> Z(1)]}]
ImpulseInput ==
    [n \in 0..MaxCount |-> {[j \in 1..n |-> IF nsamples + j = 1 THEN Z(1) ELSE Z(0)]}]

(* ------------------------------------------------------------------ *)
(* Initial state: symp_instantiate, ports connected                    *)
(* ------------------------------------------------------------------ *)
Init ==
    /\ \E r \in SampleRates : symp = symp_instantiate(r)
    /\ heap = <<>>
    /\ leaked = 0
    /\ ports = DefaultPorts
    /\ out1 = Zeros(MaxCount)
    /\ out2 = Zeros(MaxCount)
    /\ active = FALSE
    /\ fault = "none"
    /\ setup_ret = 1
    /\ oom_printed = FALSE
    /\ act_tunings = NoStrings
    /\ nsamples = 0
    /\ retuned_at = -1
    /\ last_run = "none"
    /\ mixed = <<>>

(* ------------------------------------------------------------------ *)
(* Host writes to the port locations and to its output buffers         *)
(* ------------------------------------------------------------------ *)
SetTunings(V) ==
    /\ fault # "crash"
    /\ \E v \in V :
        /\ v # ports.tunings
        /\ ports' = [ports EXCEPT !.tunings = v]
    /\ retuned_at' = IF active THEN nsamples ELSE retuned_at
    /\ last_run' = "none"
    /\ mixed' = <<>>
    /\ UNCHANGED <<symp, heap, leaked, out1, out2, active, fault, setup_ret,
                   oom_printed, act_tunings, nsamples>>

SetPort(name, V) ==
    /\ fault # "crash"
    /\ \E v \in V :
        /\ v # ports[name]
        /\ ports' = [ports EXCEPT ![name] = v]
    /\ last_run' = "none"
    /\ mixed' = <<>>
    /\ UNCHANGED <<symp, heap, leaked, out1, out2, active, fault, setup_ret,
                   oom_printed, act_tunings, nsamples, retuned_at>>

FillOutputs(O) ==
    /\ fault # "crash"
    /\ \E a \in O :
        /\ out1' = [j \in 1..MaxCount |-> a]
        /\ out2' = [j \in 1..MaxCount |-> a]
        /\ <<out1', out2'>> # <<out1, out2>>
    /\ last_run' = "none"
    /\ mixed' = <<>>
    /\ UNCHANGED <<symp, heap, leaked, ports, active, fault, setup_ret, oom_printed,
                   act_tunings, nsamples, retuned_at>>

(* ------------------------------------------------------------------ *)
(* symp_set_run_adding_gain                                            *)
(* ------------------------------------------------------------------ *)
symp_set_run_adding_gain(s, gain) == [s EXCEPT !.run_adding_gain = gain]

SetRunAddingGain(A) ==
    /\ fault # "crash"
    /\ \E gain \in A :
        /\ gain # symp.run_adding_gain
        /\ symp' = symp_set_run_adding_gain(symp, gain)
    /\ last_run' = "none"
    /\ mixed' = <<>>
    /\ UNCHANGED <<heap, leaked, ports, out1, out2, active, fault, setup_ret,
                   oom_printed, act_tunings, nsamples, retuned_at>>

(* ------------------------------------------------------------------ *)
(* symp_activate                                                       *)
(* ------------------------------------------------------------------ *)
NumMallocs == 2 * Cardinality({i \in Ports : RLt(Z(0), ports.tunings[i])})

(* if (!ret) printf("Out of memory!\n"), ret the value of symp_setup_combs *)
OutOfMemoryPrinted(ret) == LogicalNot(ret) # 0

symp_activate(s, h, fail_at, zero_null) == symp_setup_combs(s, h, fail_at, zero_null)

(* the state after symp_activate with result r *)
Activated(r) ==
    /\ symp' = r.symp
    /\ heap' = r.heap
    /\ setup_ret' = r.ret
    /\ oom_printed' = OutOfMemoryPrinted(r.ret)

Activate ==
    /\ fault # "crash"
    /\ ~active
    /\ leaked <= MaxLeaked
    /\ \E fail_at \in 0..Min(NumMallocs, MaxFailAt), zero_null \in BOOLEAN :
        Activated(symp_activate(symp, heap, fail_at, zero_null))
    /\ active' = TRUE
    /\ act_tunings' = ports.tunings
    /\ nsamples' = 0
    /\ retuned_at' = -1
    /\ last_run' = "none"
    /\ mixed' = <<>>
    /\ UNCHANGED <<leaked, ports, out1, out2, fault>>

(* ------------------------------------------------------------------ *)
(* symp_deactivate                                                     *)
(* ------------------------------------------------------------------ *)
symp_deactivate(s, h, lk) == symp_cleanup_combs(s, h, lk)

(* the state after symp_deactivate with result r *)
Deactivated(r) ==
    /\ symp' = r.symp
    /\ heap' = r.heap
    /\ leaked' = r.leaked
    /\ fault' = IF r.valid THEN fault ELSE "ub"

Deactivate ==
    /\ fault # "crash"
    /\ Deactivated(symp_deactivate(symp, heap, leaked))
    /\ active' = FALSE
    /\ nsamples' = 0
    /\ retuned_at' = -1
    /\ last_run' = "none"
    /\ mixed' = <<>>
    /\ UNCHANGED <<ports, out1, out2, setup_ret, oom_printed, act_tunings>>

(* ------------------------------------------------------------------ *)
(* symp_run / symp_run_adding on one block                             *)
(* An invalid access is undefined behaviour: the process may crash, or *)
(* go on with an arbitrary value read.                                 *)
(* ------------------------------------------------------------------ *)
Block(r, entry, n) ==
    /\ symp' = r.symp
    /\ heap' = r.heap
    /\ out1' = r.o1
    /\ out2' = r.o2
    /\ mixed' = r.mixed
    /\ last_run' = entry
    /\ nsamples' = nsamples + n
    /\ UNCHANGED <<leaked, ports, active, setup_ret, oom_printed, act_tunings,
                   retuned_at>>

Crash ==
    /\ fault' = "crash"
    /\ last_run' = "none"
    /\ mixed' = <<>>
    /\ UNCHANGED <<symp, heap, leaked, ports, out1, out2, active, setup_ret,
                   oom_printed, act_tunings, nsamples, retuned_at>>

(* r is the result of the block: with an invalid access the process       *)
(* either goes on with the value read or crashes                           *)
Outcome(r, entry, n) ==
    IF r.valid
    THEN Block(r, entry, n) /\ UNCHANGED fault
    ELSE \/ Block(r, entry, n) /\ fault' = "ub"
         \/ Crash

Run(Inputs, cap) ==
    /\ fault # "crash"
    /\ active
    /\ \E n \in 0..MaxCount :
        /\ nsamples + n <= cap
        /\ \E input \in Inputs[n], g \in Garbage :
            Outcome(symp_run(symp, heap, out1, out2, n, input, g), "run", n)

RunAdding(Inputs, cap) ==
    /\ fault # "crash"
    /\ active
    /\ \E n \in 0..MaxCount :
        /\ nsamples + n <= cap
        /\ \E input \in Inputs[n], g \in Garbage :
            Outcome(symp_run_adding(symp, heap, out1, out2, n, input, g), "run_adding", n)

(* ------------------------------------------------------------------ *)
(* Lifecycle specification: activation with allocation failures,       *)
(* processing, release, re-activation with other tunings               *)
(* ------------------------------------------------------------------ *)
HostTunes == SetTunings(LifecycleTunings)
HostRuns == Run(OnesInput, MaxSamples)

Next ==
    \/ HostTunes
    \/ Activate
    \/ Deactivate
    \/ HostRuns

Spec == Init /\ [][Next]_vars

(* ------------------------------------------------------------------ *)
(* Coefficient specification: the host moves the feedback and damping  *)
(* controls between blocks                                             *)
(* ------------------------------------------------------------------ *)
FeedbackValues == {Z(0), Q(1, 2), Z(1)}
DampingValues == {Z(0), Z(1)}

HostTunesCoef == ~active /\ SetTunings(MixTunings)
HostSetsFeedback == SetPort("feedback", FeedbackValues)
HostSetsDamping == SetPort("damping", DampingValues)
HostRunsCoef == Run(OnesInput, MaxMixSamples)

NextCoef ==
    \/ HostTunesCoef
    \/ HostSetsFeedback
    \/ HostSetsDamping
    \/ Activate
    \/ HostRunsCoef

SpecCoef == Init /\ [][NextCoef]_vars

(* ------------------------------------------------------------------ *)
(* Mix specification: the host moves the wet controls and the adding   *)
(* gain and refills its output buffers between blocks                  *)
(* ------------------------------------------------------------------ *)
WetLeftValues == {Z(-1), Z(0), Z(1), Z(2)}
WetRightValues == {Z(0), Q(1, 2), Z(1)}
AddingGains == {Z(0), Z(2)}
OutputValues == {Z(0), Z(1)}

HostTunesMix == ~active /\ SetTunings(MixTunings)
HostSetsWetLeft == SetPort("wet_left", WetLeftValues)
HostSetsWetRight == SetPort("wet_right", WetRightValues)
HostSetsAddingGain == SetRunAddingGain(AddingGains)
HostFillsOutputs == FillOutputs(OutputValues)
HostRunsMix == Run(OnesInput, MaxMixSamples)
HostRunsAddingMix == RunAdding(OnesInput, MaxMixSamples)

NextMix ==
    \/ HostTunesMix
    \/ HostSetsWetLeft
    \/ HostSetsWetRight
    \/ HostSetsAddingGain
    \/ HostFillsOutputs
    \/ Activate
    \/ HostRunsMix
    \/ HostRunsAddingMix

InitMix == Init /\ symp.sample_rate = 3

SpecMix == InitMix /\ [][NextMix]_vars

(* ------------------------------------------------------------------ *)
(* Impulse specification: one string, scaled feedback 1, damping 0,    *)
(* a unit impulse followed by zeros; the tuning ports may change while *)
(* the effect is active                                                *)
(* ------------------------------------------------------------------ *)
UnitFeedback == Q(40, 39)

HostTunesImpulse == SetTunings(ImpulseTunings)
HostSetsUnitFeedback == SetPort("feedback", {UnitFeedback})
HostRunsImpulse == ports.feedback = UnitFeedback /\ Run(ImpulseInput, MaxImpulseSamples)

NextImpulse ==
    \/ HostTunesImpulse
    \/ HostSetsUnitFeedback
    \/ Activate
    \/ HostRunsImpulse

SpecImpulse == Init /\ [][NextImpulse]_vars

(* ------------------------------------------------------------------ *)
(* Reference definitions used to state the properties                  *)
(* ------------------------------------------------------------------ *)
(* the bank seen by the processing loop: combs[0 .. num_combs - 1] *)
BankIndex == 0..(symp.num_combs - 1)
CombAt(c) == heap[symp.combs[c]]

(* the tunings > 0 of a port vector, in port order *)
RECURSIVE PositiveFrom(_, _)
PositiveFrom(t, i) ==
    IF i >= COMB_COUNT THEN <<>>
    ELSE IF t[i][1] > 0 THEN <<t[i]>> \o PositiveFrom(t, i + 1)
    ELSE PositiveFrom(t, i + 1)

PositiveTunings(t) == PositiveFrom(t, 0)

(* floor(rate / f) for f > 0: the k with k * f <= rate < (k + 1) * f *)
FloorRatio(rate, f) ==
    CHOOSE k \in 0..(rate * f[2]) :
        /\ k * f[1] <= rate * f[2]
        /\ rate * f[2] < (k + 1) * f[1]

LiveBlocks == Cardinality(DOMAIN heap) + leaked

(* ------------------------------------------------------------------ *)
(* C1: whenever an allocation failed inside symp_setup_combs (it        *)
(* returned -1 to symp_activate), symp_activate took its out-of-memory  *)
(* branch.                                                              *)
(* ------------------------------------------------------------------ *)
C1_FailureReported == (setup_ret # 1) => oom_printed

(* ------------------------------------------------------------------ *)
(* C2: after an activation in which an allocation failed, every filter  *)
(* counted in num_combs has a non-null buffer of its full delay length. *)
(* ------------------------------------------------------------------ *)
C2_AllOrNothing ==
    (active /\ setup_ret # 1) =>
        \A c \in BankIndex :
            /\ CombAt(c).buffer # NULL
            /\ CombAt(c).buffer \in DOMAIN heap
            /\ Len(heap[CombAt(c).buffer].data) =
                   FloorRatio(symp.sample_rate, PositiveTunings(act_tunings)[c + 1])

(* ------------------------------------------------------------------ *)
(* C3: after symp_deactivate no allocation of the bank is live and      *)
(* num_combs is 0.                                                      *)
(* ------------------------------------------------------------------ *)
C3_ReleaseFreesAll == (~active) => (LiveBlocks = 0 /\ symp.num_combs = 0)

(* ------------------------------------------------------------------ *)
(* C4: every filter of a bank whose allocations all succeeded has       *)
(* size = floor(R / f) >= 1, and its idx is a valid index of its buffer. *)
(* ------------------------------------------------------------------ *)
C4_DelayAtLeastOne ==
    (active /\ setup_ret = 1) =>
        \A c \in BankIndex :
            /\ CombAt(c).size =
                   FloorRatio(symp.sample_rate, PositiveTunings(act_tunings)[c + 1])
            /\ CombAt(c).size >= 1
            /\ CombAt(c).idx < CombAt(c).size

(* ------------------------------------------------------------------ *)
(* C6: right after a symp_activate the bank holds exactly the filters   *)
(* of the tunings > 0, in port order, each with size floor(R / f), a    *)
(* zero buffer of that length, idx = 0 and store = 0.                   *)
(* ------------------------------------------------------------------ *)
FreshBank ==
    /\ symp.num_combs = Len(PositiveTunings(act_tunings))
    /\ symp.num_combs <= COMB_COUNT
    /\ \A c \in BankIndex :
        /\ symp.combs[c] \in DOMAIN heap
        /\ CombAt(c).size =
               FloorRatio(symp.sample_rate, PositiveTunings(act_tunings)[c + 1])
        /\ CombAt(c).idx = 0
        /\ CombAt(c).store = Z(0)
        /\ CombAt(c).buffer \in DOMAIN heap
        /\ heap[CombAt(c).buffer].data = [j \in 1..CombAt(c).size |-> Z(0)]
    /\ \A c, d \in BankIndex :
        c # d => /\ symp.combs[c] # symp.combs[d]
                 /\ CombAt(c).buffer # CombAt(d).buffer
                 /\ symp.combs[c] # CombAt(d).buffer

BankShape == [n |-> symp.num_combs, size |-> [c \in BankIndex |-> CombAt(c).size]]

C9_TuningInert ==
    [][(active /\ active') =>
          /\ BankShape' = BankShape
          /\ (ports.tunings' # ports.tunings) => (symp' = symp /\ heap' = heap)]_vars

(* blocks have run, past a wrap-around of the delay line, after the      *)
(* tunings changed to values that would give another delay length        *)
C9_Witness ==
    /\ active /\ setup_ret = 1 /\ fault = "none"
    /\ retuned_at >= 0 /\ nsamples >= retuned_at + 4
    /\ symp.num_combs > 0
    /\ PositiveTunings(ports.tunings) # PositiveTunings(act_tunings)

(* clamp to [0, 1] *)
RMax(x, y) == IF RLt(x, y) THEN y ELSE x
RMin(x, y) == IF RLt(x, y) THEN x ELSE y
Clamp01(w) == RMax(Z(0), RMin(w, Z(1)))

(* ------------------------------------------------------------------ *)
(* C5: after every block the cached coefficients are those of the raw   *)
(* controls the block read: scaled_feedback = 0.96 + feedback * 0.039,  *)
(* within [0.960, 0.999], damp1 = damping * 0.5, damp2 = 1 - damp1.     *)
(* (last_run is reset by every host write, so ports holds what the      *)
(* block read.)                                                         *)
(* ------------------------------------------------------------------ *)
C5_CoefficientsCurrent ==
    (last_run # "none") =>
        LET fb == ports.feedback
            dm == ports.damping
            sf == symp.scaled_feedback
            d1 == symp.damp1
            d2 == symp.damp2
        IN  /\ sf[1] * 1000 * fb[2] = sf[2] * (960 * fb[2] + 39 * fb[1])
            /\ 960 * sf[2] <= 1000 * sf[1]
            /\ 1000 * sf[1] <= 999 * sf[2]
            /\ d1[1] * 2 * dm[2] = d1[2] * dm[1]
            /\ d2[1] * d1[2] = d2[2] * (d1[2] - d1[1])

(* ------------------------------------------------------------------ *)
(* C7: a symp_run_adding block leaves the output buffer of a channel    *)
(* whose raw wet value is <= 0 unchanged, and adds                      *)
(* mixed_i * adding gain * clamped wet at every index i of a channel    *)
(* whose wet value is > 0, whatever the other channel's wet value is.   *)
(* ------------------------------------------------------------------ *)
Accumulated(before, after, wet) ==
    /\ Len(after) = Len(before)
    /\ \A i \in 1..Len(before) :
        after[i] = IF i <= Len(mixed')
                   THEN RAdd(before[i],
                             RMul(RMul(mixed'[i], symp.run_adding_gain), Clamp01(wet)))
                   ELSE before[i]

C7_AddLeavesDryChannel ==
    [][(last_run' = "run_adding") =>
          /\ RLe(ports.wet_left, Z(0)) => out1' = out1
          /\ RLe(ports.wet_right, Z(0)) => out2' = out2
          /\ RLt(Z(0), ports.wet_left) => Accumulated(out1, out1', ports.wet_left)
          /\ RLt(Z(0), ports.wet_right) => Accumulated(out2, out2', ports.wet_right)]_vars

(* the left channel is dry and kept its content while the right channel  *)
(* accumulated a non-zero bank sum                                       *)
C7_Witness ==
    /\ last_run = "run_adding" /\ fault = "none"
    /\ RLe(ports.wet_left, Z(0)) /\ RLt(Z(0), ports.wet_right)
    /\ symp.run_adding_gain # Z(0)
    /\ \E i \in 1..Len(mixed) : mixed[i] # Z(0) /\ out1[i] = Z(1) /\ out2[i] # Z(1)

(* ------------------------------------------------------------------ *)
(* C8: after a symp_run block of N samples, for every index i           *)
(* out1[i] = mixed_i * clamp(wet_left, 0, 1) and                        *)
(* out2[i] = mixed_i * clamp(wet_right, 0, 1).                          *)
(* ------------------------------------------------------------------ *)
C8_ReplaceOutputs ==
    (last_run = "run") =>
        \A i \in 1..Len(mixed) :
            /\ out1[i] = RMul(mixed[i], Clamp01(ports.wet_left))
            /\ out2[i] = RMul(mixed[i], Clamp01(ports.wet_right))

(* a non-zero bank sum written with a wet value above 1 on the left and  *)
(* a wet value inside the range on the right                             *)
C8_Witness ==
    /\ last_run = "run" /\ fault = "none"
    /\ ports.wet_left = Z(2) /\ ports.wet_right = Q(1, 2)
    /\ \E i \in 1..Len(mixed) : mixed[i] # Z(0) /\ out1[i] = mixed[i]

(* ------------------------------------------------------------------ *)
(* C10: a single fresh comb of delay length L >= 1, scaled feedback 1,  *)
(* damp1 = 0, damp2 = 1, fed a unit impulse and then zeros, outputs 1   *)
(* at every sample index that is a positive multiple of L and 0 at      *)
(* every other index, across block boundaries.                          *)
(* ------------------------------------------------------------------ *)
C10_ImpulseRecirculates ==
    (/\ last_run = "run" /\ fault = "none" /\ setup_ret = 1
     /\ symp.num_combs = 1
     /\ symp.scaled_feedback = Z(1) /\ symp.damp1 = Z(0) /\ symp.damp2 = Z(1)
     /\ ports.gain_input = Z(1)) =>
        /\ CombAt(0).size >= 1
        /\ \A i \in 1..Len(mixed) :
            LET k == nsamples - Len(mixed) + i - 1
            IN  mixed[i] = IF k > 0 /\ k % CombAt(0).size = 0 THEN Z(1) ELSE Z(0)

(* the second return of the impulse, in a block that started before it   *)
C10_Witness ==
    /\ last_run = "run" /\ fault = "none" /\ setup_ret = 1
    /\ symp.num_combs = 1 /\ symp.scaled_feedback = Z(1)
    /\ CombAt(0).size = 3
    /\ nsamples = 7 /\ Len(mixed) = 2
    /\ mixed = <<Z(0), Z(1)>>

====
